---- MODULE Spec2Model ----
(***************************************************************************)
(* The tick engine of django-toosimple-q's worker command                  *)
(* (django_toosimple_q/management/commands/worker.py).                     *)
(*                                                                         *)
(* Several worker processes run Command.tick against one shared store of   *)
(* TaskExec and ScheduleExec rows.  A tick is a sequence of database       *)
(* statements / transactions; each of them is one atomic action here, and  *)
(* the actions of different workers interleave freely.  The claim          *)
(* transaction (select_for_update().first() followed by save()) is two     *)
(* actions, the first of which takes the row lock that the second          *)
(* releases on commit.                                                     *)
(***************************************************************************)
EXTENDS Integers, Sequences, FiniteSets, TLC

VARIABLES
    now,                \* timezone.now(), a discrete clock
    tasks,              \* the TaskExec table, a sequence of rows (pk = index)
    schedule_execs,     \* the ScheduleExec table, name -> row or NoRow
    tasks_registry,     \* name -> Task Definition (read-only during a run)
    schedules_registry, \* sequence of Schedule Definitions (read-only)
    workers,            \* worker -> the Command object's fields and position
    hist                \* per TaskExec row: how often claimed / executed, by whom

vars == <<now, tasks, schedule_execs, tasks_registry, schedules_registry, workers, hist>>

----------------------------------------------------------------------------
\* Bounds of the model.

\* worker processes of a round
NumWorkers == 2
\* ticks after which the model stops a worker in continuous mode
MaxTicks == 3
\* last instant of the clock
MaxTime == 1
\* rows the application enqueues during a run
MaxEnqueue == 1
\* rows in the store when the workers start
MaxLegacy == 2
\* queued rows in the store at the start of a round
MaxK == 3

Workers == DOMAIN workers

----------------------------------------------------------------------------
\* The data model.

TaskStates == {"QUEUED", "SLEEPING", "PROCESSING", "SUCCEEDED", "FAILED", "INVALID"}

ScheduleStates == {"ACTIVE", "INVALID"}

NoRow == [state |-> "NONE"]

NoTime == -1

QueueNames == {"default", "other"}

\* Task names that occur in the store; "gone" is in no registry.
TaskNames == {"hi", "lo", "bg", "send_email", "gone"}

ScheduleNames == {"sch_a", "sch_b", "daily_report", "sch_gone"}

\* A registry with tasks of different priorities in two queues.
FullTasksRegistry ==
    [n \in {"hi", "lo", "bg"} |->
        CASE n = "hi" -> [name |-> "hi", priority |-> 5, queue |-> "default"]
          [] n = "lo" -> [name |-> "lo", priority |-> 1, queue |-> "default"]
          [] n = "bg" -> [name |-> "bg", priority |-> 5, queue |-> "other"]]

FullSchedulesRegistry ==
    << [name |-> "sch_a", task |-> "lo", queue |-> "default",
        first_due |-> 0, interval |-> 1, valid |-> TRUE],
       [name |-> "sch_b", task |-> "bg", queue |-> "other",
        first_due |-> 1, interval |-> 2, valid |-> TRUE] >>

\* The registry of the end-to-end scenario: one task, one schedule due at once.
EmailTasksRegistry ==
    [n \in {"send_email"} |-> [name |-> "send_email", priority |-> 5, queue |-> "default"]]

EmailSchedulesRegistry ==
    << [name |-> "daily_report", task |-> "send_email", queue |-> "default",
        first_due |-> 0, interval |-> 2, valid |-> TRUE] >>

\* --queue / --exclude_queue: a mutually exclusive group, both optional.
FilterOptions ==
    { [queues |-> {}, excluded_queues |-> {}],
      [queues |-> {"default"}, excluded_queues |-> {}],
      [queues |-> {}, excluded_queues |-> {"default"}] }

TaskExec(name, state, due, created) ==
    [task_name |-> name, state |-> state, due |-> due, created |-> created,
     started |-> NoTime, result |-> "none"]

\* History of a row, kept beside the table: how often it was claimed and executed,
\* by which worker, its rank among the claims, where it came from and its first state.
NoHist == [claims |-> 0, runs |-> 0, by |-> 0, order |-> 0, origin |-> "legacy",
           first |-> "QUEUED"]

Modes == {"continuous", "once", "until_done"}

RowIds == 1..Len(tasks)

----------------------------------------------------------------------------
\* Registry helpers.

RegisteredTasks == DOMAIN tasks_registry

RegisteredSchedules == {schedules_registry[k].name : k \in 1..Len(schedules_registry)}

QueuePasses(queue, queues, excluded_queues) ==
    IF queues # {} THEN queue \in queues
    ELSE IF excluded_queues # {} THEN queue \notin excluded_queues
    ELSE TRUE

\* tasks_registry.for_queue(queues, excluded_queues): the names of the definitions kept
TasksForQueue(queues, excluded_queues) ==
    {n \in RegisteredTasks : QueuePasses(tasks_registry[n].queue, queues, excluded_queues)}

\* schedules_registry.for_queue(queues, excluded_queues), in registry order
RECURSIVE SchedulesForQueue(_, _, _)
SchedulesForQueue(reg, queues, excluded_queues) ==
    IF reg = <<>> THEN <<>>
    ELSE IF QueuePasses(Head(reg).queue, queues, excluded_queues)
         THEN <<Head(reg)>> \o SchedulesForQueue(Tail(reg), queues, excluded_queues)
         ELSE SchedulesForQueue(Tail(reg), queues, excluded_queues)

----------------------------------------------------------------------------
\* The store's initial content and the workers' initial fields.

\* Rows left by earlier runs, possibly under another registry.
LegacyRows ==
    << TaskExec("hi", "QUEUED", 0, 0),
       TaskExec("lo", "QUEUED", 0, 0),
       TaskExec("lo", "SLEEPING", 1, 0),
       TaskExec("lo", "PROCESSING", 0, 0),
       TaskExec("lo", "SUCCEEDED", 0, 0),
       TaskExec("gone", "QUEUED", 0, 0),
       TaskExec("gone", "FAILED", 0, 0),
       TaskExec("gone", "INVALID", 0, 0) >>

\* The stores of at most MaxLegacy different legacy rows. No statement of a tick
\* looks at a row's position in the table, so each choice of rows appears in one
\* order only.
LegacyStores ==
    LET Picks(n) == {f \in [1..n -> 1..Len(LegacyRows)] :
                        \A i \in 1..n, j \in 1..n : i < j => f[i] < f[j]}
    IN UNION {{[i \in 1..n |-> LegacyRows[f[i]]] : f \in Picks(n)} : n \in 0..MaxLegacy}

\* Queued rows with different priorities, due times and creation times.
QueuedRows ==
    { TaskExec("hi", "QUEUED", 0, 0),
      TaskExec("hi", "QUEUED", 0, 1),
      TaskExec("lo", "QUEUED", 0, 0),
      TaskExec("lo", "QUEUED", 1, 0),
      TaskExec("bg", "QUEUED", 0, 1) }

\* The stores of at most MaxK different queued rows, in every insertion order.
QueuedStores ==
    UNION {{st \in [1..n -> QueuedRows] : \A i \in 1..n, j \in 1..n : i # j => st[i] # st[j]}
           : n \in 1..MaxK}

NoScheduleExecs == [n \in ScheduleNames |-> NoRow]

ScheduleExecRow(state, last_run, next_due) ==
    [state |-> state, last_run |-> last_run, next_due |-> next_due]

\* A ScheduleExec left by a schedule that is no longer registered.
LegacyScheduleExecs == [NoScheduleExecs EXCEPT !["sch_gone"] = ScheduleExecRow("ACTIVE", 0, 0)]

\* handle(): the fields set before the loop starts, and tick()'s locals
NewWorker(opt, mode) ==
    [pc |-> "idle", queues |-> opt.queues, excluded_queues |-> opt.excluded_queues,
     mode |-> mode,
     did_something |-> FALSE, task_exec |-> 0, schedules_to_check |-> <<>>,
     \* ticks run so far
     ticks |-> 0,
     \* history of the current tick: the rows it claimed, the rows its schedules created
     claimed |-> {}, fired |-> {}]

InitHist(store) == [i \in 1..Len(store) |-> [NoHist EXCEPT !.first = store[i].state]]

\* Two workers, each with its own queue filter, started with --once on a store
\* left by earlier runs.
Init ==
    /\ now = 0
    /\ tasks \in LegacyStores
    /\ hist = InitHist(tasks)
    /\ schedule_execs = LegacyScheduleExecs
    /\ tasks_registry = FullTasksRegistry
    /\ schedules_registry = FullSchedulesRegistry
    /\ \E a \in FilterOptions, b \in FilterOptions :
           workers = <<NewWorker(a, "once"), NewWorker(b, "once")>>

----------------------------------------------------------------------------
\* The environment: the clock and the application's enqueue calls.

AdvanceTime ==
    /\ now < MaxTime
    /\ now' = now + 1
    /\ UNCHANGED <<tasks, schedule_execs, tasks_registry, schedules_registry, workers, hist>>

Enqueued == Cardinality({i \in RowIds : hist[i].origin = "enqueue"})

\* Application code inserts a TaskExec: QUEUED, or SLEEPING when due is in the future.
Enqueue(name, due) ==
    /\ Enqueued < MaxEnqueue
    /\ tasks' = Append(tasks,
                       TaskExec(name, IF due > now THEN "SLEEPING" ELSE "QUEUED", due, now))
    /\ hist' = Append(hist, [NoHist EXCEPT !.origin = "enqueue",
                                            !.first = IF due > now THEN "SLEEPING" ELSE "QUEUED"])
    /\ UNCHANGED <<now, schedule_execs, tasks_registry, schedules_registry, workers>>

----------------------------------------------------------------------------
\* Command.tick, one action per statement / transaction.

\* ScheduleExec.objects.exclude(state=INVALID).exclude(name__in=keys).update(state=INVALID)
InvalidateSchedules(execs) ==
    [n \in DOMAIN execs |->
        IF execs[n] # NoRow /\ execs[n].state # "INVALID" /\ n \notin RegisteredSchedules
        THEN [execs[n] EXCEPT !.state = "INVALID"]
        ELSE execs[n]]

\* tick() begins: did_something = False, then the first transaction
OrphanSchedules(w) ==
    /\ workers[w].pc = "idle"
    /\ workers[w].mode = "continuous" => workers[w].ticks < MaxTicks
    /\ schedule_execs' = InvalidateSchedules(schedule_execs)
    /\ workers' = [workers EXCEPT ![w].pc = "orphan_tasks",
                                  ![w].did_something = FALSE,
                                  ![w].task_exec = 0,
                                  ![w].claimed = {},
                                  ![w].fired = {}]
    /\ UNCHANGED <<now, tasks, tasks_registry, schedules_registry, hist>>

\* ScheduleExec.objects.exclude(state=INVALID).exclude(name__in=keys): the rows the
\* update is applied to; their number is what update() returns as count
OrphanedScheduleExecs(execs) ==
    {n \in DOMAIN execs :
        execs[n] # NoRow /\ execs[n].state # "INVALID" /\ n \notin RegisteredSchedules}

\* TaskExec.objects.exclude(state=INVALID).exclude(task_name__in=keys): the rows the
\* update is applied to; their number is what update() returns as count
OrphanedTaskExecs(rows) ==
    {i \in DOMAIN rows : rows[i].state # "INVALID" /\ rows[i].task_name \notin RegisteredTasks}

\* Variant: filter(task_name__in=keys) in place of exclude(task_name__in=keys).
InvalidateRegisteredTasks(rows) ==
    [i \in DOMAIN rows |->
        IF rows[i].state # "INVALID" /\ rows[i].task_name \in RegisteredTasks
        THEN [rows[i] EXCEPT !.state = "INVALID"]
        ELSE rows[i]]

\* Variant: only queued rows are looked at.
InvalidateQueuedTasks(rows) ==
    [i \in DOMAIN rows |->
        IF rows[i].state = "QUEUED" /\ rows[i].task_name \notin RegisteredTasks
        THEN [rows[i] EXCEPT !.state = "INVALID"]
        ELSE rows[i]]

\* TaskExec.objects.exclude(state=INVALID).exclude(task_name__in=keys).update(state=INVALID)
InvalidateTasks(rows) ==
    [i \in DOMAIN rows |->
        IF rows[i].state # "INVALID" /\ rows[i].task_name \notin RegisteredTasks
        THEN [rows[i] EXCEPT !.state = "INVALID"]
        ELSE rows[i]]

OrphanTasks(w) ==
    /\ workers[w].pc = "orphan_tasks"
    /\ tasks' = InvalidateTasks(tasks)
    /\ LET todo == SchedulesForQueue(schedules_registry,
                                     workers[w].queues, workers[w].excluded_queues)
       IN workers' = [workers EXCEPT ![w].schedules_to_check = todo,
                                     ![w].pc = IF todo = <<>> THEN "wake" ELSE "schedules"]
    /\ UNCHANGED <<now, schedule_execs, tasks_registry, schedules_registry, hist>>

\* Variant: the bookkeeping stays at the firing instant.
SameInstant(s, t) == t

\* The next instant of the recurrence rule strictly after t.
NextInstant(s, t) ==
    IF t < s.first_due THEN s.first_due
    ELSE s.first_due + (((t - s.first_due) \div s.interval) + 1) * s.interval

\* Whether the schedule's next due instant has arrived, from its bookkeeping.
ScheduleDue(s) ==
    /\ s.valid
    /\ IF schedule_execs[s.name] = NoRow THEN now >= s.first_due
       ELSE /\ schedule_execs[s.name].state = "ACTIVE"
            /\ now >= schedule_execs[s.name].next_due

\* The ScheduleExec after schedule.execute: advanced when fired, created on first sight.
ScheduleBookkeeping(s) ==
    IF ScheduleDue(s) THEN ScheduleExecRow("ACTIVE", now, NextInstant(s, now))
    ELSE IF s.valid /\ schedule_execs[s.name] = NoRow
         THEN ScheduleExecRow("ACTIVE", NoTime, NextInstant(s, now))
         ELSE schedule_execs[s.name]

\* Variant: the error of a malformed recurrence rule leaves schedule.execute and
\* tick() and ends the worker.
ScheduleExecuteRaises(w) ==
    /\ workers[w].pc = "schedules"
    /\ LET s == Head(workers[w].schedules_to_check)
           rest == Tail(workers[w].schedules_to_check)
           fires == ScheduleDue(s)
       IN IF ~s.valid
          THEN /\ workers' = [workers EXCEPT ![w].pc = "crashed"]
               /\ UNCHANGED <<schedule_execs, tasks, hist>>
          ELSE /\ schedule_execs' = [schedule_execs EXCEPT ![s.name] = ScheduleBookkeeping(s)]
               /\ tasks' = IF fires THEN Append(tasks, TaskExec(s.task, "QUEUED", now, now))
                           ELSE tasks
               /\ hist' = IF fires THEN Append(hist, [NoHist EXCEPT !.origin = s.name])
                          ELSE hist
               /\ workers' = [workers EXCEPT
                     ![w].schedules_to_check = rest,
                     ![w].did_something = workers[w].did_something \/ fires,
                     ![w].fired = IF fires THEN workers[w].fired \cup {Len(tasks) + 1}
                                  ELSE workers[w].fired,
                     ![w].pc = IF rest = <<>> THEN "wake" ELSE "schedules"]
    /\ UNCHANGED <<now, tasks_registry, schedules_registry>>

\* for schedule in schedules_to_check: did_something |= schedule.execute(tick_duration)
\* (one iteration of the loop; schedule.execute is one transaction)
ScheduleExecute(w) ==
    /\ workers[w].pc = "schedules"
    /\ LET s == Head(workers[w].schedules_to_check)
           rest == Tail(workers[w].schedules_to_check)
           fires == ScheduleDue(s)
       IN /\ schedule_execs' = [schedule_execs EXCEPT ![s.name] = ScheduleBookkeeping(s)]
          /\ tasks' = IF fires THEN Append(tasks, TaskExec(s.task, "QUEUED", now, now))
                      ELSE tasks
          /\ hist' = IF fires THEN Append(hist, [NoHist EXCEPT !.origin = s.name])
                     ELSE hist
          /\ workers' = [workers EXCEPT
                ![w].schedules_to_check = rest,
                ![w].did_something = workers[w].did_something \/ fires,
                ![w].fired = IF fires THEN workers[w].fired \cup {Len(tasks) + 1}
                             ELSE workers[w].fired,
                ![w].pc = IF rest = <<>> THEN "wake" ELSE "schedules"]
    /\ UNCHANGED <<now, tasks_registry, schedules_registry>>

\* Variant: the filter on due is missing.
WakeSleepingTasks(rows) ==
    [i \in DOMAIN rows |->
        IF rows[i].state = "SLEEPING" THEN [rows[i] EXCEPT !.state = "QUEUED"] ELSE rows[i]]

\* Variant: the filter on state=SLEEPING is missing.
WakeDueTasks(rows) ==
    [i \in DOMAIN rows |->
        IF rows[i].due <= now THEN [rows[i] EXCEPT !.state = "QUEUED"] ELSE rows[i]]

\* TaskExec.objects.filter(state=SLEEPING).filter(due__lte=now).update(state=QUEUED)
WakeTasks(rows) ==
    [i \in DOMAIN rows |->
        IF rows[i].state = "SLEEPING" /\ rows[i].due <= now
        THEN [rows[i] EXCEPT !.state = "QUEUED"]
        ELSE rows[i]]

Wake(w) ==
    /\ workers[w].pc = "wake"
    /\ tasks' = WakeTasks(tasks)
    /\ workers' = [workers EXCEPT ![w].pc = "claim"]
    /\ UNCHANGED <<now, schedule_execs, tasks_registry, schedules_registry, hist>>

\* Variant: the priority without its minus sign (ascending priority).
order_by_priority_ascending(row) ==
    IF row.task_name \in RegisteredTasks
    THEN tasks_registry[row.task_name].priority
    ELSE 0

\* Case(*[When(task_name=task.name, then=Value(-task.priority)) ...], default=Value(0))
order_by_priority_clause(row) ==
    IF row.task_name \in RegisteredTasks
    THEN 0 - tasks_registry[row.task_name].priority
    ELSE 0

\* order_by(order_by_priority_clause, "due", "created"): a sorts strictly before b
SortsBefore(a, b) ==
    \/ order_by_priority_clause(a) < order_by_priority_clause(b)
    \/ /\ order_by_priority_clause(a) = order_by_priority_clause(b)
       /\ \/ a.due < b.due
          \/ a.due = b.due /\ a.created < b.created

\* Variant: the queryset was evaluated before this tick's schedules were run.
tasks_execs_before_schedules(w) ==
    {i \in RowIds \ workers[w].fired :
        /\ tasks[i].state = "QUEUED"
        /\ tasks[i].task_name \in TasksForQueue(workers[w].queues, workers[w].excluded_queues)}

\* Variant: rows that are still SLEEPING are taken as well.
tasks_execs_with_sleeping(w) ==
    {i \in RowIds :
        /\ tasks[i].state \in {"QUEUED", "SLEEPING"}
        /\ tasks[i].task_name \in TasksForQueue(workers[w].queues, workers[w].excluded_queues)}

\* Variant: rows that are PROCESSING are taken as well.
tasks_execs_with_processing(w) ==
    {i \in RowIds :
        /\ tasks[i].state \in {"QUEUED", "PROCESSING"}
        /\ tasks[i].task_name \in TasksForQueue(workers[w].queues, workers[w].excluded_queues)}

\* Variant: the filter on task_name is missing.
tasks_execs_any_name(w) == {i \in RowIds : tasks[i].state = "QUEUED"}

\* Variant: every registered task instead of tasks_to_check.
tasks_execs_any_queue(w) ==
    {i \in RowIds : tasks[i].state = "QUEUED" /\ tasks[i].task_name \in RegisteredTasks}

\* filter(state=QUEUED).filter(task_name__in=[t.name for t in tasks_to_check])
tasks_execs(w) ==
    {i \in RowIds :
        /\ tasks[i].state = "QUEUED"
        /\ tasks[i].task_name \in TasksForQueue(workers[w].queues, workers[w].excluded_queues)}

\* The rows .first() may return: those no other row of the queryset sorts before.
FirstRows(w) ==
    {i \in tasks_execs(w) : \A j \in tasks_execs(w) : ~SortsBefore(tasks[j], tasks[i])}

\* Variant: a plain select, which takes no row lock.
RowNeverLocked(w, i) == FALSE

\* select_for_update(): the row is locked by another worker's open claim transaction
RowLocked(w, i) ==
    \E v \in Workers \ {w} : workers[v].pc = "save" /\ workers[v].task_exec = i

\* Variant: run-until-idle mode exits after its first tick, whatever it returned.
AfterTickExits(mode, did_something) ==
    IF mode \in {"once", "until_done"} THEN "exited" ELSE "idle"

\* Variant: --once is tested together with the tick's result, as --until_done is.
AfterTickWhenIdle(mode, did_something) ==
    IF mode \in {"once", "until_done"} /\ ~did_something THEN "exited" ELSE "idle"

\* handle(): after did_something = self.tick(), leave the loop or go round again
AfterTick(mode, did_something) ==
    IF mode = "once" THEN "exited"
    ELSE IF mode = "until_done" /\ ~did_something THEN "exited"
    ELSE "idle"

\* Variant: a worker that finds the first row locked gives up instead of waiting.
ClaimSelectNoWait(w) ==
    /\ workers[w].pc = "claim"
    /\ IF tasks_execs(w) = {} \/ \A i \in FirstRows(w) : RowLocked(w, i)
       THEN workers' = [workers EXCEPT
                ![w].task_exec = 0,
                ![w].pc = AfterTick(workers[w].mode, workers[w].did_something),
                ![w].ticks = workers[w].ticks + 1]
       ELSE \E i \in FirstRows(w) :
                /\ ~RowLocked(w, i)
                /\ workers' = [workers EXCEPT ![w].task_exec = i, ![w].pc = "save"]
    /\ UNCHANGED <<now, tasks, schedule_execs, tasks_registry, schedules_registry, hist>>

\* with transaction.atomic(): task_exec = tasks_execs.select_for_update().first()
\* (waits while the first row is locked by another transaction)
ClaimSelect(w) ==
    /\ workers[w].pc = "claim"
    /\ IF tasks_execs(w) = {}
       THEN workers' = [workers EXCEPT
                ![w].task_exec = 0,
                ![w].pc = AfterTick(workers[w].mode, workers[w].did_something),
                ![w].ticks = workers[w].ticks + 1]
       ELSE \E i \in FirstRows(w) :
                /\ ~RowLocked(w, i)
                /\ workers' = [workers EXCEPT ![w].task_exec = i, ![w].pc = "save"]
    /\ UNCHANGED <<now, tasks, schedule_execs, tasks_registry, schedules_registry, hist>>

\* task_exec.started = now; task_exec.state = PROCESSING; task_exec.save(); commit
ClaimSave(w) ==
    /\ workers[w].pc = "save"
    /\ LET i == workers[w].task_exec
       IN /\ tasks' = [tasks EXCEPT ![i].started = now, ![i].state = "PROCESSING"]
          /\ hist' = [hist EXCEPT
                ![i].claims = hist[i].claims + 1,
                ![i].by = w,
                ![i].order = Cardinality({j \in RowIds : hist[j].claims > 0}) + 1]
          /\ workers' = [workers EXCEPT ![w].pc = "execute",
                                        ![w].claimed = workers[w].claimed \cup {i}]
    /\ UNCHANGED <<now, schedule_execs, tasks_registry, schedules_registry>>

\* task.execute(task_exec): run the callable, store SUCCEEDED or FAILED, return True
TaskExecute(row, ok) ==
    [row EXCEPT !.state = IF ok THEN "SUCCEEDED" ELSE "FAILED",
                !.result = IF ok THEN "value" ELSE "exception"]

\* Variant: an exception of the callable leaves tick() and ends the worker.
ExecutePropagates(w) ==
    /\ workers[w].pc = "execute"
    /\ LET i == workers[w].task_exec
       IN \E ok \in BOOLEAN :
           IF ok
           THEN /\ tasks' = [tasks EXCEPT ![i] = TaskExecute(tasks[i], TRUE)]
                /\ hist' = [hist EXCEPT ![i].runs = hist[i].runs + 1]
                /\ workers' = [workers EXCEPT ![w].did_something = TRUE,
                                              ![w].pc = AfterTick(workers[w].mode, TRUE),
                                              ![w].ticks = workers[w].ticks + 1]
           ELSE /\ tasks' = tasks
                /\ hist' = [hist EXCEPT ![i].runs = hist[i].runs + 1]
                /\ workers' = [workers EXCEPT ![w].pc = "crashed"]
    /\ UNCHANGED <<now, schedule_execs, tasks_registry, schedules_registry>>

\* Variant: after executing, the tick goes back to claim another row.
ExecuteAndClaimAgain(w) ==
    /\ workers[w].pc = "execute"
    /\ LET i == workers[w].task_exec
       IN \E ok \in BOOLEAN :
               /\ tasks' = [tasks EXCEPT ![i] = TaskExecute(tasks[i], ok)]
               /\ hist' = [hist EXCEPT ![i].runs = hist[i].runs + 1]
               /\ workers' = [workers EXCEPT ![w].did_something = TRUE, ![w].pc = "claim"]
    /\ UNCHANGED <<now, schedule_execs, tasks_registry, schedules_registry>>

\* if task_exec: task = tasks_registry[task_exec.task_name]
\*               did_something |= task.execute(task_exec)
\* return did_something
Execute(w) ==
    /\ workers[w].pc = "execute"
    /\ LET i == workers[w].task_exec
       IN IF tasks[i].task_name \notin RegisteredTasks
          THEN \* KeyError out of tick()
               /\ workers' = [workers EXCEPT ![w].pc = "crashed"]
               /\ UNCHANGED <<tasks, hist>>
          ELSE \E ok \in BOOLEAN :
               /\ tasks' = [tasks EXCEPT ![i] = TaskExecute(tasks[i], ok)]
               /\ hist' = [hist EXCEPT ![i].runs = hist[i].runs + 1]
               /\ workers' = [workers EXCEPT ![w].did_something = TRUE,
                                             ![w].pc = AfterTick(workers[w].mode, TRUE),
                                             ![w].ticks = workers[w].ticks + 1]
    /\ UNCHANGED <<now, schedule_execs, tasks_registry, schedules_registry>>

\* The steps of the workers' ticks, and the clock.
Next ==
    \/ AdvanceTime
    \/ \E w \in Workers : OrphanSchedules(w)
    \/ \E w \in Workers : OrphanTasks(w)
    \/ \E w \in Workers : ScheduleExecute(w)
    \/ \E w \in Workers : Wake(w)
    \/ \E w \in Workers : ClaimSelect(w)
    \/ \E w \in Workers : ClaimSave(w)
    \/ \E w \in Workers : Execute(w)

Spec == Init /\ [][Next]_vars

----------------------------------------------------------------------------
\* One worker looping over ticks while the application enqueues tasks.

InitSolo ==
    /\ now = 0
    /\ \/ /\ tasks \in {st \in LegacyStores : Len(st) <= 1}
          /\ schedule_execs = LegacyScheduleExecs
          /\ tasks_registry = FullTasksRegistry
          /\ schedules_registry = FullSchedulesRegistry
       \/ /\ tasks = <<>>
          /\ schedule_execs = NoScheduleExecs
          /\ tasks_registry = EmailTasksRegistry
          /\ schedules_registry = EmailSchedulesRegistry
    /\ hist = InitHist(tasks)
    /\ \E opt \in FilterOptions, mode \in {"continuous", "until_done"} :
           workers = [w \in {1} |-> NewWorker(opt, mode)]

NextSolo ==
    \/ AdvanceTime
    \/ \E name \in {"hi", "gone"}, due \in {now, now + 1} : Enqueue(name, due)
    \/ \E w \in Workers : OrphanSchedules(w)
    \/ \E w \in Workers : OrphanTasks(w)
    \/ \E w \in Workers : ScheduleExecute(w)
    \/ \E w \in Workers : Wake(w)
    \/ \E w \in Workers : ClaimSelect(w)
    \/ \E w \in Workers : ClaimSave(w)
    \/ \E w \in Workers : Execute(w)

SpecSolo == InitSolo /\ [][NextSolo]_vars

\* One worker looping over ticks while the clock runs and nothing is enqueued.
SpecLoop == InitSolo /\ [][Next]_vars

----------------------------------------------------------------------------
\* A store of queued rows and no schedule due: either NumWorkers workers each run
\* one tick (a round), the first with one queue filter and the others with
\* another or the same, or one worker runs until idle.

InitRound ==
    /\ now = 0
    /\ tasks \in QueuedStores
    /\ hist = InitHist(tasks)
    /\ schedule_execs = [NoScheduleExecs EXCEPT
                            !["sch_a"] = ScheduleExecRow("ACTIVE", 0, MaxTime + 1),
                            !["sch_b"] = ScheduleExecRow("ACTIVE", 0, MaxTime + 1)]
    /\ tasks_registry = FullTasksRegistry
    /\ schedules_registry = FullSchedulesRegistry
    /\ \E a \in FilterOptions, b \in FilterOptions :
           \/ workers = [w \in 1..NumWorkers |-> NewWorker(IF w = 1 THEN a ELSE b, "once")]
           \/ a = b /\ workers = [w \in {1} |-> NewWorker(a, "until_done")]

NextRound ==
    \/ \E w \in Workers : OrphanSchedules(w)
    \/ \E w \in Workers : OrphanTasks(w)
    \/ \E w \in Workers : ScheduleExecute(w)
    \/ \E w \in Workers : Wake(w)
    \/ \E w \in Workers : ClaimSelect(w)
    \/ \E w \in Workers : ClaimSave(w)
    \/ \E w \in Workers : Execute(w)

SpecRound == InitRound /\ [][NextRound]_vars

\* One worker in run-until-idle mode on a queued store
InitDrain == InitRound /\ \A w \in Workers : workers[w].mode = "until_done"

\* The process is scheduled: when the worker can take a step it takes one.
SpecDrain == InitDrain /\ [][NextRound]_vars /\ WF_vars(NextRound)

----------------------------------------------------------------------------
\* One worker under a schedule registry whose first entry has a malformed
\* recurrence rule, followed by a well-formed schedule that is due at once.

MalformedSchedulesRegistry ==
    << [FullSchedulesRegistry[2] EXCEPT !.valid = FALSE], FullSchedulesRegistry[1] >>

InitMalformed ==
    /\ now = 0
    /\ tasks \in {st \in LegacyStores : Len(st) <= 1}
    /\ hist = InitHist(tasks)
    /\ schedule_execs = LegacyScheduleExecs
    /\ tasks_registry = FullTasksRegistry
    /\ schedules_registry = MalformedSchedulesRegistry
    /\ \E opt \in FilterOptions, mode \in Modes :
           workers = [w \in {1} |-> NewWorker(opt, mode)]

SpecMalformed == InitMalformed /\ [][Next]_vars

----------------------------------------------------------------------------
\* One worker started in any of the three modes, and the clock.

InitModes ==
    /\ now = 0
    /\ \/ /\ tasks \in {st \in LegacyStores : Len(st) <= 1}
          /\ schedule_execs = LegacyScheduleExecs
          /\ tasks_registry = FullTasksRegistry
          /\ schedules_registry = FullSchedulesRegistry
       \/ /\ tasks = <<>>
          /\ schedule_execs = NoScheduleExecs
          /\ tasks_registry = EmailTasksRegistry
          /\ schedules_registry = EmailSchedulesRegistry
    /\ hist = InitHist(tasks)
    /\ \E opt \in FilterOptions, mode \in Modes :
           workers = [w \in {1} |-> NewWorker(opt, mode)]

SpecModes == InitModes /\ [][Next]_vars

----------------------------------------------------------------------------
\* One worker and the termination signals of its host.

\* signal.signal(SIGINT / SIGTERM, signal.default_int_handler): the handler raises
\* KeyboardInterrupt in the main thread wherever it is, between two ticks or
\* between two statements of a tick.  Neither tick() nor handle() catches it, so
\* the worker ends there; a claim transaction that is still open is rolled back,
\* which releases its row lock.
Signal(w) ==
    /\ workers[w].pc \notin {"exited", "crashed", "interrupted"}
    /\ workers' = [workers EXCEPT ![w].pc = "interrupted"]
    /\ UNCHANGED <<now, tasks, schedule_execs, tasks_registry, schedules_registry, hist>>

NextSignal ==
    \/ AdvanceTime
    \/ \E w \in Workers : Signal(w)
    \/ \E w \in Workers : OrphanSchedules(w)
    \/ \E w \in Workers : OrphanTasks(w)
    \/ \E w \in Workers : ScheduleExecute(w)
    \/ \E w \in Workers : Wake(w)
    \/ \E w \in Workers : ClaimSelect(w)
    \/ \E w \in Workers : ClaimSave(w)
    \/ \E w \in Workers : Execute(w)

SpecSignal == InitModes /\ [][NextSignal]_vars

\* Two workers sharing the registries, one run once and one looping, and the
\* termination signals of their hosts; every row is of a registered task and no
\* schedule is due.
InitStop ==
    /\ now = 0
    /\ tasks \in {st \in LegacyStores :
                     \A k \in 1..Len(st) : st[k].task_name \in DOMAIN FullTasksRegistry}
    /\ hist = InitHist(tasks)
    /\ schedule_execs = [NoScheduleExecs EXCEPT
                            !["sch_a"] = ScheduleExecRow("ACTIVE", 0, MaxTime + 1),
                            !["sch_b"] = ScheduleExecRow("ACTIVE", 0, MaxTime + 1)]
    /\ tasks_registry = FullTasksRegistry
    /\ schedules_registry = FullSchedulesRegistry
    /\ \E a \in FilterOptions, b \in FilterOptions :
           workers = << NewWorker(a, "once"), NewWorker(b, "continuous") >>

SpecStop == InitStop /\ [][NextSignal]_vars

----------------------------------------------------------------------------
\* One worker in continuous mode with the pacing of handle()'s loop: the fields
\* last_run and tick_duration, and the sleep between two ticks.

\* last instant of the clock of the paced loop
MaxClock == 3

\* --tick, in units of the clock
TickDurations == {1, 2}

Max(a, b) == IF a > b THEN a ELSE b

\* Variant: the floor at zero is missing.
SleepTimeUnfloored(tick_duration, dt) == tick_duration - dt

\* max(0, self.tick_duration - dt)
SleepTime(tick_duration, dt) == Max(0, tick_duration - dt)

\* The worker's fields, with last_run = timezone.now() of handle()'s start; looped
\* counts the ticks whose return the loop has dealt with, slept is the length of
\* its last sleep and sleep_until the instant that sleep ends.
NewPacedWorker(opt, tick_duration) ==
    NewWorker(opt, "continuous") @@
    [tick_duration |-> tick_duration, last_run |-> 0, looped |-> 0,
     slept |-> 0, sleep_until |-> 0]

InitPaced ==
    /\ now = 0
    /\ \/ /\ tasks \in {st \in LegacyStores : Len(st) <= 1}
          /\ schedule_execs = LegacyScheduleExecs
          /\ tasks_registry = FullTasksRegistry
          /\ schedules_registry = FullSchedulesRegistry
       \/ /\ tasks = <<>>
          /\ schedule_execs = NoScheduleExecs
          /\ tasks_registry = EmailTasksRegistry
          /\ schedules_registry = EmailSchedulesRegistry
    /\ hist = InitHist(tasks)
    /\ \E opt \in FilterOptions, d \in TickDurations :
           workers = [w \in {1} |-> NewPacedWorker(opt, d)]

Tock ==
    /\ now < MaxClock
    /\ now' = now + 1
    /\ UNCHANGED <<tasks, schedule_execs, tasks_registry, schedules_registry, workers, hist>>

\* if not did_something: dt = (now() - last_run).total_seconds()
\*                        time.sleep(max(0, self.tick_duration - dt))
LoopSleep(w) ==
    /\ workers[w].pc = "idle"
    /\ workers[w].looped < workers[w].ticks
    /\ LET dt == now - workers[w].last_run
           d == IF ~workers[w].did_something THEN SleepTime(workers[w].tick_duration, dt)
                ELSE 0
       IN workers' = [workers EXCEPT ![w].looped = workers[w].ticks,
                                     ![w].slept = d,
                                     ![w].sleep_until = now + d]
    /\ UNCHANGED <<now, tasks, schedule_execs, tasks_registry, schedules_registry, hist>>

\* last_run = timezone.now(); did_something = self.tick(): the sleep is over, the
\* loop goes round and the tick begins with its first transaction
LoopTick(w) ==
    /\ workers[w].pc = "idle"
    /\ workers[w].looped = workers[w].ticks
    /\ now >= workers[w].sleep_until
    /\ workers[w].ticks < MaxTicks
    /\ schedule_execs' = InvalidateSchedules(schedule_execs)
    /\ workers' = [workers EXCEPT ![w].last_run = now,
                                  ![w].pc = "orphan_tasks",
                                  ![w].did_something = FALSE,
                                  ![w].task_exec = 0,
                                  ![w].claimed = {},
                                  ![w].fired = {}]
    /\ UNCHANGED <<now, tasks, tasks_registry, schedules_registry, hist>>

NextPaced ==
    \/ Tock
    \/ \E w \in Workers : LoopSleep(w)
    \/ \E w \in Workers : LoopTick(w)
    \/ \E w \in Workers : OrphanTasks(w)
    \/ \E w \in Workers : ScheduleExecute(w)
    \/ \E w \in Workers : Wake(w)
    \/ \E w \in Workers : ClaimSelect(w)
    \/ \E w \in Workers : ClaimSave(w)
    \/ \E w \in Workers : Execute(w)

SpecPaced == InitPaced /\ [][NextPaced]_vars

----------------------------------------------------------------------------
\* Vocabulary of the properties.

Min(a, b) == IF a < b THEN a ELSE b

\* All workers were started with the same queue options.
SameFilter ==
    \A w \in Workers : /\ workers[w].queues = workers[1].queues
                        /\ workers[w].excluded_queues = workers[1].excluded_queues

\* The queue passes the worker's filter: the inclusion list when given, else the
\* exclusion list when given, else every queue.
Passes(w, queue) ==
    /\ workers[w].queues # {} => queue \in workers[w].queues
    /\ (workers[w].queues = {} /\ workers[w].excluded_queues # {})
           => queue \notin workers[w].excluded_queues

\* The row names a registered task whose queue passes the worker's filter.
Eligible(w, i) ==
    /\ tasks[i].task_name \in DOMAIN tasks_registry
    /\ Passes(w, tasks_registry[tasks[i].task_name].queue)

\* Row a comes before row b: higher definition priority, then earlier due, then
\* earlier created.
Precedes(a, b) ==
    LET pa == tasks_registry[a.task_name].priority
        pb == tasks_registry[b.task_name].priority
    IN \/ pa > pb
       \/ pa = pb /\ a.due < b.due
       \/ pa = pb /\ a.due = b.due /\ a.created < b.created

ClaimedRows == {i \in RowIds : hist[i].claims > 0}

TickEnded(w) == workers[w].pc \in {"idle", "exited"} /\ workers[w].ticks > 0

----------------------------------------------------------------------------
\* C1: whatever the interleaving of the workers' steps, every TaskExec is moved
\* from QUEUED to PROCESSING at most once, by one worker, and its callable is run
\* at most once.
C1_NoDoubleClaim ==
    \A i \in RowIds :
        /\ hist[i].claims <= 1
        /\ hist[i].runs <= 1
        /\ Cardinality({w \in Workers : workers[w].pc = "execute"
                                        /\ workers[w].task_exec = i}) <= 1

\* Two workers for which the same rows were eligible claimed different rows, after
\* one of them waited for the other's lock on the first row.
C1_Witness ==
    \E i \in RowIds, j \in RowIds :
        /\ i # j
        /\ hist[i].claims = 1 /\ hist[i].runs = 1
        /\ hist[j].claims = 1
        /\ hist[i].by # hist[j].by
        /\ Eligible(hist[j].by, i)
        /\ Eligible(hist[i].by, j)
        /\ hist[i].first = "QUEUED" /\ hist[j].first = "QUEUED"
        /\ hist[i].origin = "legacy" /\ hist[j].origin = "legacy"

\* C2: when the workers of a round, all with the same queue filter, have each run
\* one tick on a store of K >= 1 eligible queued rows, exactly min(K, M) rows have
\* been claimed.
C2_RoundClaims ==
    LET K == Cardinality({i \in RowIds : hist[i].first = "QUEUED" /\ Eligible(1, i)})
        M == Cardinality(Workers)
    IN (/\ SameFilter
        /\ \A w \in Workers : workers[w].mode = "once" /\ workers[w].pc = "exited"
        /\ K >= 1)
       => Cardinality(ClaimedRows) = Min(K, M)

\* A finished round of at least two workers with more eligible rows than workers.
C2_Witness ==
    /\ Cardinality(Workers) >= 2
    /\ SameFilter
    /\ \A w \in Workers : workers[w].mode = "once" /\ workers[w].pc = "exited"
    /\ Cardinality({i \in RowIds : Eligible(1, i)}) > Cardinality(Workers)
    /\ Cardinality(ClaimedRows) = Cardinality(Workers)

\* C3: a claimed row comes before, or ties with, every row that was eligible for
\* the claiming worker and was not claimed earlier; so successive claims follow the
\* order (descending priority, ascending due, ascending created) whatever the
\* insertion order.
C3_ClaimOrder ==
    \A i \in ClaimedRows : \A j \in RowIds :
        (/\ Eligible(hist[i].by, j)
         /\ hist[j].first = "QUEUED"
         /\ hist[j].order = 0 \/ hist[j].order > hist[i].order)
        => ~Precedes(tasks[j], tasks[i])

\* One worker has drained three rows with distinct keys that were inserted in the
\* reverse of the claim order.
C3_Witness ==
    /\ Workers = {1}
    /\ workers[1].pc = "exited"
    /\ Len(tasks) = 3
    /\ hist[3].order = 1 /\ hist[2].order = 2 /\ hist[1].order = 3
    /\ Precedes(tasks[3], tasks[2]) /\ Precedes(tasks[2], tasks[1])

\* C4: a tick moves at most one row out of QUEUED, however many rows are eligible.
C4_OneClaimPerTick ==
    \A w \in Workers :
        /\ Cardinality(workers[w].claimed) <= 1
        /\ Cardinality({i \in RowIds : hist[i].by = w /\ hist[i].claims > 0})
               <= workers[w].ticks + 1

\* A tick has ended having claimed one row while another eligible row is still queued.
C4_Witness ==
    \E w \in Workers :
        /\ workers[w].pc = "exited"
        /\ workers[w].claimed # {}
        /\ \E j \in RowIds : tasks[j].state = "QUEUED" /\ Eligible(w, j)

\* C5: every row a worker claims names a registered task whose queue passes the
\* worker's filter, and every schedule a worker evaluates or fires is of a queue
\* that passes it.
C5_QueueFilter ==
    /\ \A i \in ClaimedRows : Eligible(hist[i].by, i)
    /\ \A w \in Workers :
        /\ workers[w].pc \in {"save", "execute"} => Eligible(w, workers[w].task_exec)
        /\ \A k \in 1..Len(workers[w].schedules_to_check) :
               Passes(w, workers[w].schedules_to_check[k].queue)
        /\ \A i \in workers[w].fired :
               \E k \in 1..Len(schedules_registry) :
                   /\ schedules_registry[k].name = hist[i].origin
                   /\ Passes(w, schedules_registry[k].queue)

\* A worker that excludes queue "default" has finished its tick without a claim
\* while a task of that queue is still queued.
C5_Witness ==
    \E w \in Workers :
        /\ workers[w].excluded_queues = {"default"}
        /\ workers[w].pc = "exited"
        /\ workers[w].claimed = {}
        /\ \E i \in RowIds : tasks[i].state = "QUEUED" /\ tasks[i].task_name = "hi"
                               /\ hist[i].first = "QUEUED"

----------------------------------------------------------------------------
\* The row names no registered task.
Orphan(i) == tasks[i].task_name \notin DOMAIN tasks_registry

\* The ScheduleExec exists and names no registered schedule.
OrphanSchedule(n) ==
    /\ schedule_execs[n] # NoRow
    /\ \A k \in 1..Len(schedules_registry) : schedules_registry[k].name # n

\* Worker w takes the step that leaves position pc.
Leaves(w, pc) == workers[w].pc = pc /\ workers'[w].pc # pc

\* C6: the reconciliation steps of a tick set every orphaned TaskExec and
\* ScheduleExec that is not INVALID to INVALID, they come before the schedule and
\* claim steps of the tick, and an orphaned row is never claimed, executed or
\* evaluated as a schedule and stays INVALID.
C6_OrphansInvalidated ==
    [][ /\ \A w \in Workers :
            /\ Leaves(w, "orphan_tasks") =>
                   \A i \in RowIds : Orphan(i) => tasks'[i].state = "INVALID"
            /\ Leaves(w, "idle") =>
                   /\ workers'[w].pc = "orphan_tasks"
                   /\ \A n \in ScheduleNames :
                          OrphanSchedule(n) => schedule_execs'[n].state = "INVALID"
            /\ workers'[w].pc = "schedules" => workers[w].pc \in {"orphan_tasks", "schedules"}
            /\ workers'[w].pc = "wake" => workers[w].pc \in {"orphan_tasks", "schedules", "wake"}
            /\ workers'[w].pc = "claim" => workers[w].pc \in {"wake", "claim"}
            /\ workers'[w].pc \in {"save", "execute"} => ~Orphan(workers'[w].task_exec)
            /\ \A k \in 1..Len(workers'[w].schedules_to_check) :
                   ~OrphanSchedule(workers'[w].schedules_to_check[k].name)
        /\ \A i \in RowIds :
            Orphan(i) =>
                /\ hist'[i].claims = 0 /\ hist'[i].runs = 0
                /\ tasks[i].state = "INVALID" => tasks'[i].state = "INVALID"
                /\ tasks'[i].state # tasks[i].state =>
                       tasks'[i].state \notin {"PROCESSING", "SUCCEEDED", "FAILED"}
        /\ \A n \in ScheduleNames :
            OrphanSchedule(n) =>
                /\ schedule_execs'[n] \in {schedule_execs[n],
                                           [schedule_execs[n] EXCEPT !.state = "INVALID"]}
                /\ \A i \in 1..Len(tasks') : hist'[i].origin # n
      ]_vars

\* A queued row enqueued under an unregistered name and the ScheduleExec of an
\* unregistered schedule are INVALID, the row unclaimed, after two ticks.
C6_Witness ==
    /\ workers[1].ticks >= 2
    /\ schedule_execs["sch_gone"].state = "INVALID"
    /\ \E i \in RowIds :
           /\ Orphan(i)
           /\ hist[i].origin = "enqueue" /\ hist[i].first = "QUEUED"
           /\ tasks[i].state = "INVALID"
           /\ hist[i].claims = 0

\* C7 as stated: a row in SUCCEEDED, FAILED or INVALID never changes state again.
C7_TerminalNeverChanges ==
    [][ \A i \in RowIds :
            tasks[i].state \in {"SUCCEEDED", "FAILED", "INVALID"}
                => tasks'[i].state = tasks[i].state ]_vars

\* C7 as amended: INVALID is terminal; a SUCCEEDED or FAILED row changes state only
\* when the orphan reconciliation of a tick sets it to INVALID because its
\* task_name is not registered; no row is deleted.
C7_TerminalUnlessOrphaned ==
    [][ /\ Len(tasks') >= Len(tasks)
        /\ \A i \in RowIds :
            /\ tasks'[i].task_name = tasks[i].task_name
            /\ tasks'[i].created = tasks[i].created
            /\ tasks[i].state = "INVALID" => tasks'[i].state = "INVALID"
            /\ tasks[i].state \in {"SUCCEEDED", "FAILED"} =>
                   \/ tasks'[i].state = tasks[i].state
                   \/ /\ tasks'[i].state = "INVALID"
                      /\ Orphan(i)
                      /\ \E w \in Workers : Leaves(w, "orphan_tasks")
      ]_vars

\* After every worker's tick, a FAILED row of an unregistered task is INVALID and
\* a SUCCEEDED row of a registered task is still SUCCEEDED.
C7_Witness ==
    /\ \A w \in Workers : workers[w].pc = "exited"
    /\ \E i \in RowIds, j \in RowIds :
           /\ hist[i].first = "FAILED" /\ Orphan(i) /\ tasks[i].state = "INVALID"
           /\ hist[j].first = "SUCCEEDED" /\ ~Orphan(j) /\ tasks[j].state = "SUCCEEDED"

\* The end-to-end scenario: one registered task, one schedule due at once bound to
\* it, a worker whose filter passes their queue.
Scenario(w) == tasks_registry = EmailTasksRegistry /\ Passes(w, "default")

ScheduledRows == {i \in RowIds : hist[i].origin = "daily_report"}

\* C8 as stated: the TaskExec a schedule creates in a tick is QUEUED at the end of
\* that tick; in the scenario there is exactly one TaskExec, QUEUED, after one tick.
C8_QueuedAfterFiringTick ==
    \A w \in Workers :
        TickEnded(w) =>
            /\ \A i \in workers[w].fired : tasks[i].state = "QUEUED"
            /\ (Scenario(w) /\ workers[w].ticks = 1) =>
                   /\ Cardinality(ScheduledRows) = 1
                   /\ \A i \in ScheduledRows : tasks[i].state = "QUEUED"

\* C8 as amended: the TaskExec a schedule creates is QUEUED when the schedule step
\* ends, and the claim step of the same tick can claim it: in the scenario there is
\* exactly one TaskExec after one tick and it is already finalized, SUCCEEDED if the
\* callable succeeded, and it is still so after the second tick.
C8_ClaimedInFiringTick ==
    \A w \in Workers :
        /\ workers[w].pc \in {"schedules", "wake", "claim"} =>
               \A i \in workers[w].fired : tasks[i].state = "QUEUED"
        /\ (Scenario(w) /\ TickEnded(w)) =>
               /\ ScheduledRows # {}
               /\ workers[w].ticks = 1 =>
                      Cardinality(ScheduledRows) = 1 /\ ScheduledRows = workers[w].fired
               /\ \A i \in ScheduledRows :
                      /\ tasks[i].state \in {"SUCCEEDED", "FAILED"}
                      /\ tasks[i].state = "SUCCEEDED" <=> tasks[i].result = "value"
                      /\ hist[i].claims = 1

\* The scenario after the second tick: one TaskExec, created and finalized to
\* SUCCEEDED in the first tick.
C8_Witness ==
    \E w \in Workers :
        /\ Scenario(w) /\ TickEnded(w)
        /\ workers[w].ticks = 2
        /\ workers[w].fired = {}
        /\ Cardinality(ScheduledRows) = 1
        /\ \A i \in ScheduledRows : tasks[i].state = "SUCCEEDED"

\* Rows created by schedule n at instant t.
FiredAt(n, t) == {i \in RowIds : hist[i].origin = n /\ tasks[i].created = t}

\* C9: evaluating a registered schedule that is due and has no ScheduleExec yet
\* creates, in one step, one QUEUED TaskExec for its task and a ScheduleExec whose
\* next-due is after the firing instant; no schedule fires twice at one instant.
C9_FiresOnce ==
    [][ /\ \A w \in Workers :
            Leaves(w, "schedules") \/ (workers[w].pc = "schedules"
                                       /\ workers'[w].schedules_to_check
                                              # workers[w].schedules_to_check) =>
                LET s == Head(workers[w].schedules_to_check)
                IN (schedule_execs[s.name] = NoRow /\ now >= s.first_due) =>
                       /\ Len(tasks') = Len(tasks) + 1
                       /\ tasks'[Len(tasks')].task_name = s.task
                       /\ tasks'[Len(tasks')].state = "QUEUED"
                       /\ tasks'[Len(tasks')].due = now
                       /\ tasks'[Len(tasks')].created = now
                       /\ schedule_execs'[s.name] # NoRow
                       /\ schedule_execs'[s.name].state = "ACTIVE"
                       /\ schedule_execs'[s.name].next_due > now
                       /\ workers'[w].did_something
        /\ \A k \in 1..Len(schedules_registry) : \A t \in 0..now' :
            Cardinality({i \in 1..Len(tasks') :
                            hist'[i].origin = schedules_registry[k].name
                            /\ tasks'[i].created = t}) <= 1
      ]_vars

\* Two workers whose filters pass queue "default" have both run their tick at
\* instant 0 and schedule "sch_a" has fired once.
C9_Witness ==
    /\ now = 0
    /\ Cardinality(Workers) >= 2
    /\ \A w \in Workers : workers[w].pc = "exited" /\ Passes(w, "default")
    /\ Cardinality(FiredAt("sch_a", 0)) = 1
    /\ schedule_execs["sch_a"].next_due > 0

\* C10: when a tick that claimed a row has returned, the row is FAILED if the
\* callable raised and SUCCEEDED if it returned, tick() returned True and the loop
\* goes on; no failure leaves tick(), and a claimed row is PROCESSING only while
\* its worker is about to execute it.
C10_FailureIsolated ==
    /\ \A w \in Workers :
        /\ workers[w].pc # "crashed"
        /\ (TickEnded(w) /\ workers[w].task_exec # 0) =>
               LET row == tasks[workers[w].task_exec]
               IN /\ row.state \in {"SUCCEEDED", "FAILED"}
                  /\ row.result \in {"value", "exception"}
                  /\ row.result = "exception" <=> row.state = "FAILED"
                  /\ workers[w].did_something
                  /\ workers[w].mode # "once" => workers[w].pc = "idle"
    /\ \A i \in ClaimedRows :
        tasks[i].state = "PROCESSING" =>
            workers[hist[i].by].pc = "execute" /\ workers[hist[i].by].task_exec = i

\* A callable raised, its row is FAILED, and a later tick of the same worker
\* claimed another row and finalized it to SUCCEEDED.
C10_Witness ==
    \E i \in RowIds, j \in RowIds :
        /\ tasks[i].state = "FAILED" /\ tasks[i].result = "exception"
        /\ hist[i].claims = 1 /\ hist[j].claims = 1
        /\ hist[j].by = hist[i].by
        /\ hist[j].order > hist[i].order
        /\ tasks[j].state = "SUCCEEDED"

----------------------------------------------------------------------------
\* Worker w takes a step from position pc.
Steps(w, pc) == workers[w].pc = pc /\ workers'[w] # workers[w]

\* The schedule has a malformed recurrence rule.
Malformed(s) == ~s.valid

\* C11: a schedule with a malformed recurrence rule does not end the tick: its
\* evaluation changes no row and moves on to the next schedule, every schedule of
\* the registry whose queue passes the filter is in the tick's list and is
\* evaluated in turn (a well-formed one that is due fires), and the tick goes on
\* from the schedules to the wake, the claim and the execute step.
C11_MalformedSkipped ==
    [][ \A w \in Workers :
          /\ workers'[w].pc # "crashed"
          /\ Steps(w, "orphan_tasks") =>
                 \A k \in 1..Len(schedules_registry) :
                     Passes(w, schedules_registry[k].queue) =>
                         \E m \in 1..Len(workers'[w].schedules_to_check) :
                             workers'[w].schedules_to_check[m] = schedules_registry[k]
          /\ Steps(w, "schedules") =>
                 LET s == Head(workers[w].schedules_to_check)
                     rest == Tail(workers[w].schedules_to_check)
                 IN /\ workers'[w].schedules_to_check = rest
                    /\ workers'[w].pc = IF rest = <<>> THEN "wake" ELSE "schedules"
                    /\ Malformed(s) =>
                           /\ tasks' = tasks
                           /\ schedule_execs' = schedule_execs
                           /\ workers'[w].did_something = workers[w].did_something
                    /\ (~Malformed(s) /\ schedule_execs[s.name] = NoRow
                                      /\ now >= s.first_due) =>
                           /\ Len(tasks') = Len(tasks) + 1
                           /\ tasks'[Len(tasks')].task_name = s.task
          /\ Steps(w, "wake") => workers'[w].pc = "claim"
          /\ Steps(w, "claim") => workers'[w].pc \in {"save", "idle", "exited"}
          /\ Steps(w, "save") => workers'[w].pc = "execute"
          /\ Steps(w, "execute") => workers'[w].pc \in {"idle", "exited"}
      ]_vars

\* A worker of all queues has ended its first tick: the malformed schedule left no
\* trace, the schedule after it fired, and the tick claimed a row.
C11_Witness ==
    /\ schedules_registry = MalformedSchedulesRegistry
    /\ Malformed(schedules_registry[1])
    /\ workers[1].queues = {} /\ workers[1].excluded_queues = {}
    /\ TickEnded(1) /\ workers[1].ticks = 1
    /\ schedule_execs[schedules_registry[1].name] = NoRow
    /\ \E i \in workers[1].fired : hist[i].origin = schedules_registry[2].name
    /\ workers[1].claimed # {}
    /\ \A i \in RowIds : hist[i].origin # schedules_registry[1].name

----------------------------------------------------------------------------
\* Worker w's step is the return of a tick.
TickReturns(w) == workers'[w].ticks = workers[w].ticks + 1

\* C12: the loop leaves only on the return of a tick; with --once it leaves on the
\* return of the first tick whatever it returned, with --until_done on the return
\* of the first tick that returned False and of no tick that returned True, and
\* in continuous mode never; a worker that has left runs no further step.
C12_LoopModes ==
    [][ \A w \in Workers :
          /\ workers'[w].mode = workers[w].mode
          /\ workers'[w].ticks \in {workers[w].ticks, workers[w].ticks + 1}
          /\ TickReturns(w) =>
                 /\ workers'[w].pc \in {"exited", "idle"}
                 /\ workers'[w].pc = "exited" <=>
                        \/ workers[w].mode = "once"
                        \/ workers[w].mode = "until_done" /\ ~workers'[w].did_something
          /\ (workers'[w].pc = "exited" /\ workers[w].pc # "exited") => TickReturns(w)
          /\ workers[w].pc = "exited" => workers'[w] = workers[w]
          /\ workers[w].mode = "once" => workers'[w].ticks <= 1
          /\ workers[w].mode = "continuous" => workers'[w].pc # "exited"
      ]_vars

\* A worker started with --until_done has left after a tick that returned False,
\* which followed at least one tick that returned True.
C12_Witness ==
    /\ workers[1].mode = "until_done"
    /\ workers[1].pc = "exited"
    /\ workers[1].ticks >= 2
    /\ ~workers[1].did_something
    /\ \E i \in RowIds : hist[i].runs = 1

----------------------------------------------------------------------------
\* C13: a worker stopped by a termination signal has completed the tick it had
\* begun: it stopped between two ticks, and no TaskExec it claimed is left in
\* PROCESSING.
C13_CooperativeStop ==
    \A w \in Workers :
        workers[w].pc = "interrupted" =>
            \A i \in RowIds :
                (hist[i].claims > 0 /\ hist[i].by = w) =>
                    tasks[i].state \in {"SUCCEEDED", "FAILED"}

----------------------------------------------------------------------------
\* C14: the wake step of a tick sets every SLEEPING row with due <= now to QUEUED
\* and leaves every other row as it is, a SLEEPING row with due > now included;
\* the claim step is entered from the wake step only; a row leaves SLEEPING for
\* QUEUED only in a wake step that finds it due; and a claim takes a QUEUED row
\* only, so a row that was created SLEEPING is never claimed before it is due.
C14_WakeBeforeClaim ==
    [][ /\ \A w \in Workers :
            /\ Steps(w, "wake") =>
                   /\ workers'[w].pc = "claim"
                   /\ \A i \in RowIds :
                          tasks'[i] = IF tasks[i].state = "SLEEPING" /\ tasks[i].due <= now
                                      THEN [tasks[i] EXCEPT !.state = "QUEUED"]
                                      ELSE tasks[i]
            /\ (workers'[w].pc = "claim" /\ workers[w].pc # "claim") => workers[w].pc = "wake"
            /\ (Steps(w, "claim") /\ workers'[w].pc = "save") =>
                   tasks[workers'[w].task_exec].state = "QUEUED"
        /\ \A i \in RowIds :
            /\ tasks[i].state = "SLEEPING" =>
                   /\ tasks'[i].state \in {"SLEEPING", "QUEUED", "INVALID"}
                   /\ tasks'[i].state = "QUEUED" =>
                          tasks[i].due <= now /\ \E w \in Workers : Steps(w, "wake")
            /\ (tasks'[i].state = "PROCESSING" /\ tasks[i].state # "PROCESSING") =>
                   /\ tasks[i].state = "QUEUED"
                   /\ hist[i].first = "SLEEPING" => tasks[i].due <= now
      ]_vars

\* The only tick run so far has claimed, at the instant it was due, a row that was
\* SLEEPING when the tick began.
C14_Witness ==
    \E w \in Workers : \E i \in workers[w].claimed :
        /\ \A v \in Workers \ {w} : workers[v].pc = "idle" /\ workers[v].ticks = 0
        /\ workers[w].pc = "exited"
        /\ hist[i].first = "SLEEPING"
        /\ tasks[i].due = now
        /\ tasks[i].started = now

----------------------------------------------------------------------------
\* C15: the store a reconciliation step leaves is a fixed point of the
\* reconciliation: run again at once, each of the two updates finds no row to
\* change (its count is 0) and leaves the store as the first run left it.
C15_ReconcilerIdempotent ==
    [][ \A w \in Workers :
          /\ Steps(w, "idle") =>
                 /\ OrphanedScheduleExecs(schedule_execs') = {}
                 /\ InvalidateSchedules(schedule_execs') = schedule_execs'
          /\ Steps(w, "orphan_tasks") =>
                 /\ OrphanedTaskExecs(tasks') = {}
                 /\ InvalidateTasks(tasks') = tasks'
                 /\ \A i \in RowIds : i \notin OrphanedTaskExecs(tasks) => tasks'[i] = tasks[i]
      ]_vars

\* Both workers have run their reconciliation steps, the second one on the store
\* the first one left: the rows of the unregistered task and schedule are INVALID.
C15_Witness ==
    /\ Cardinality(Workers) >= 2
    /\ \A w \in Workers : workers[w].pc \notin {"idle", "orphan_tasks"}
    /\ schedule_execs["sch_gone"].state = "INVALID"
    /\ \E i \in RowIds : Orphan(i) /\ hist[i].first = "FAILED" /\ tasks[i].state = "INVALID"
    /\ \E i \in RowIds : ~Orphan(i) /\ tasks[i].state = hist[i].first

----------------------------------------------------------------------------
\* C16: whichever worker steps, a row's state changes only along QUEUED ->
\* PROCESSING (the claim's save), SLEEPING -> QUEUED (a wake step), PROCESSING ->
\* SUCCEEDED or FAILED (an execute step), or from any state to INVALID in the
\* orphan reconciliation of a row whose task is not registered.
C16_TransitionEdges ==
    [][ \A i \in RowIds :
          tasks'[i].state # tasks[i].state =>
              \/ /\ tasks[i].state = "QUEUED" /\ tasks'[i].state = "PROCESSING"
                 /\ \E w \in Workers : Steps(w, "save") /\ workers[w].task_exec = i
              \/ /\ tasks[i].state = "SLEEPING" /\ tasks'[i].state = "QUEUED"
                 /\ \E w \in Workers : Steps(w, "wake")
              \/ /\ tasks[i].state = "PROCESSING"
                 /\ tasks'[i].state \in {"SUCCEEDED", "FAILED"}
                 /\ \E w \in Workers : Steps(w, "execute") /\ workers[w].task_exec = i
              \/ /\ tasks'[i].state = "INVALID"
                 /\ Orphan(i)
                 /\ \E w \in Workers : Steps(w, "orphan_tasks")
      ]_vars

\* One row went from SLEEPING through QUEUED and PROCESSING to SUCCEEDED, another
\* was claimed and ended FAILED, and a queued row of an unregistered task is INVALID.
C16_Witness ==
    \E i \in RowIds, j \in RowIds, k \in RowIds :
        /\ hist[i].first = "SLEEPING" /\ tasks[i].state = "SUCCEEDED"
        /\ hist[j].claims = 1 /\ tasks[j].state = "FAILED"
        /\ Orphan(k) /\ hist[k].first = "QUEUED" /\ tasks[k].state = "INVALID"

----------------------------------------------------------------------------
\* The loop goes round: worker w begins a tick after an earlier one.
NextTickStarts(w) ==
    /\ workers[w].pc = "idle"
    /\ workers'[w].pc = "orphan_tasks"
    /\ workers[w].ticks >= 1

\* The loop deals with the return of worker w's tick.
TickDealtWith(w) == workers'[w].looped = workers[w].looped + 1

\* C17 as stated: between every two consecutive ticks, whatever the first tick
\* returned, the worker sleeps max(0, tick interval - time elapsed), so that a
\* tick never starts less than one tick interval after the start of the tick
\* before it.
C17_SleepsBetweenAllTicks ==
    [][\A w \in Workers :
          NextTickStarts(w) => now >= workers[w].last_run + workers[w].tick_duration]_vars

\* C17 amended: after a tick that returned False the worker sleeps
\* max(0, tick interval - time elapsed since the tick started), never a negative
\* time, and the next tick starts at least one tick interval after the start of
\* that tick; after a tick that returned True the worker does not sleep.
C17_SleepsAfterIdleTick ==
    [][\A w \in Workers :
          LET tick_duration == workers[w].tick_duration
              dt == now - workers[w].last_run
          IN /\ TickDealtWith(w) =>
                  /\ workers'[w].slept >= 0
                  /\ workers'[w].slept =
                        IF workers[w].did_something THEN 0
                        ELSE IF dt < tick_duration THEN tick_duration - dt ELSE 0
                  /\ workers'[w].sleep_until = now + workers'[w].slept
             /\ NextTickStarts(w) =>
                  /\ now >= workers[w].sleep_until
                  /\ ~workers[w].did_something => now >= workers[w].last_run + tick_duration
                  /\ workers[w].did_something => workers[w].slept = 0]_vars

\* a tick has begun after a sleep that followed a tick returning False
C17_Witness ==
    \E w \in Workers :
        /\ workers[w].pc = "orphan_tasks"
        /\ workers[w].ticks >= 1
        /\ workers[w].slept > 0
        /\ now = workers[w].last_run

----------------------------------------------------------------------------
\* The rows that were queued at the start and are eligible for worker w.
EligibleQueued(w) == {i \in RowIds : hist[i].first = "QUEUED" /\ Eligible(w, i)}

\* The rows whose callable has been run.
ExecutedRows == {i \in RowIds : hist[i].runs > 0}

\* C18: a single worker in run-until-idle mode on a store with K eligible queued
\* rows, with no schedule becoming due and no inserts, stops after exactly K + 1
\* ticks; each of the first K ticks executes exactly one task, and at exit every
\* eligible row is SUCCEEDED or FAILED, none QUEUED or PROCESSING.
C18_UntilDoneDrains ==
    /\ [](\A w \in Workers :
             workers[w].mode = "until_done" =>
                 LET K == Cardinality(EligibleQueued(w))
                 IN /\ workers[w].ticks <= K + 1
                    /\ TickEnded(w) =>
                           /\ Cardinality(ExecutedRows) = Min(workers[w].ticks, K)
                           /\ workers[w].ticks <= K => Cardinality(workers[w].claimed) = 1
                           /\ \A i \in ExecutedRows : hist[i].runs = 1
                    /\ workers[w].pc = "exited" =>
                           /\ workers[w].ticks = K + 1
                           /\ \A i \in RowIds :
                                  Eligible(w, i) => tasks[i].state \in {"SUCCEEDED", "FAILED"})
    /\ <>(\A w \in Workers : workers[w].pc = "exited")

\* The worker has stopped after four ticks on a store of three eligible rows, with
\* one callable failed.
C18_Witness ==
    \E w \in Workers :
        /\ workers[w].mode = "until_done"
        /\ workers[w].pc = "exited"
        /\ Cardinality(EligibleQueued(w)) = 3
        /\ workers[w].ticks = 4
        /\ \E i \in RowIds : tasks[i].state = "FAILED"

----------------------------------------------------------------------------
\* C19: the registry lookup on a claimed row never fails: every row the claim
\* step returns names a registered task, also when rows with unregistered names
\* are inserted after the tick's orphan reconciliation and before its claim step,
\* and such a row is never claimed.
C19_LookupNeverFails ==
    /\ \A w \in Workers :
        /\ workers[w].pc # "crashed"
        /\ workers[w].pc \in {"save", "execute"} =>
               tasks[workers[w].task_exec].task_name \in DOMAIN tasks_registry
    /\ \A i \in RowIds :
        tasks[i].task_name \notin DOMAIN tasks_registry =>
            /\ hist[i].claims = 0
            /\ tasks[i].state # "PROCESSING"

\* In its first tick the worker has claimed a row of a registered task while a row
\* of an unregistered task is QUEUED: that row was inserted SLEEPING after the
\* reconciliation of the tick and the wake step of the tick queued it.
C19_Witness ==
    \E w \in Workers, i \in RowIds, j \in RowIds :
        /\ workers[w].ticks = 0
        /\ workers[w].pc = "execute"
        /\ workers[w].task_exec = i
        /\ tasks[i].state = "PROCESSING"
        /\ tasks[j].task_name \notin DOMAIN tasks_registry
        /\ hist[j].origin = "enqueue"
        /\ hist[j].first = "SLEEPING"
        /\ tasks[j].state = "QUEUED"

----------------------------------------------------------------------------
\* C20: a PROCESSING row is owned by the worker that claimed it: no step of
\* another worker selects it or changes it, only the execute step of its owner
\* changes it, to SUCCEEDED or FAILED; when the owner has stopped before that, or
\* the row was left PROCESSING by a worker that is gone, the row stays PROCESSING
\* for ever: no tick queues, claims or executes it again.
C20_ProcessingOwned ==
    [][ /\ \A i \in RowIds :
            tasks[i].state = "PROCESSING" =>
                /\ \/ tasks'[i] = tasks[i] /\ hist'[i] = hist[i]
                   \/ /\ hist[i].claims = 1
                      /\ Steps(hist[i].by, "execute")
                      /\ workers[hist[i].by].task_exec = i
                      /\ tasks'[i].state \in {"SUCCEEDED", "FAILED"}
                      /\ hist'[i].claims = 1
                      /\ hist'[i].by = hist[i].by
                /\ \A w \in Workers :
                       (Steps(w, "claim") /\ workers'[w].task_exec = i) =>
                           workers[w].task_exec = i
        /\ \A w \in Workers :
            workers[w].pc = "interrupted" => workers'[w] = workers[w]
      ]_vars

\* A worker was stopped between its claim and its execute step; the other worker,
\* for which the row is eligible, has since run two ticks, and the row is still
\* PROCESSING, as is a row that was PROCESSING from the start.
C20_Witness ==
    \E i \in RowIds, j \in RowIds :
        /\ hist[i].claims = 1 /\ hist[i].by = 1 /\ hist[i].runs = 0
        /\ workers[1].pc = "interrupted"
        /\ tasks[i].state = "PROCESSING"
        /\ Eligible(2, i)
        /\ workers[2].ticks >= 2
        /\ workers[2].pc = "idle"
        /\ hist[j].first = "PROCESSING" /\ tasks[j].state = "PROCESSING"

============================================================================
